---- MODULE Spec2Model ----
(***************************************************************************)
(* zont - time zone converter (src/zont.py).                               *)
(*                                                                         *)
(* The model follows class TimeZoneConverter: the abbreviation table and   *)
(* the sorted zone catalog built by __init__, normalize_timezone,          *)
(* parse_time_input, convert_time and format_result.  Python strings are   *)
(* sequences of one-character strings; str.strip, str.upper, str.lower,    *)
(* the `in` operator, sorted(), re.match on the four patterns,             *)
(* datetime.strptime and the zoneinfo arithmetic are computed the way the  *)
(* Python runtime computes them.  A datetime is a record of a proleptic    *)
(* Gregorian ordinal (date.toordinal), a minute of the day, the fold bit   *)
(* and the key of the attached zone.                                       *)
(***************************************************************************)
EXTENDS Integers, Sequences, FiniteSets, TLC

VARIABLES timezone_abbrevs, all_timezones, pc, op, args, ret, calls, output

vars == <<timezone_abbrevs, all_timezones, pc, op, args, ret, calls, output>>

(***************************************************************************)
(* Characters and Python's str methods.                                    *)
(***************************************************************************)

\* The characters of the model, in increasing code point order.
CodePoints == <<"\t", " ", "+", "-", "/", "0", "1", "2", "3", "4", "5", "6", "7", "8", "9", ":", "A", "B", "C", "D", "E", "F", "G", "H", "I", "J", "K", "L", "M", "N", "O", "P", "Q", "R", "S", "T", "U", "V", "W", "X", "Y", "Z", "_", "a", "b", "c", "d", "e", "f", "g", "h", "i", "j", "k", "l", "m", "n", "o", "p", "q", "r", "s", "t", "u", "v", "w", "x", "y", "z">>

Chars == {CodePoints[i] : i \in 1..Len(CodePoints)}

UpperLetters == <<"A", "B", "C", "D", "E", "F", "G", "H", "I", "J", "K", "L", "M", "N", "O", "P", "Q", "R", "S", "T", "U", "V", "W", "X", "Y", "Z">>

LowerLetters == <<"a", "b", "c", "d", "e", "f", "g", "h", "i", "j", "k", "l", "m", "n", "o", "p", "q", "r", "s", "t", "u", "v", "w", "x", "y", "z">>

Digits == <<"0", "1", "2", "3", "4", "5", "6", "7", "8", "9">>

\* str.isspace for the characters of the model.
Whitespace == {" ", "\t"}

\* The rank of a character in code point order: what str comparison compares.
ord == [c \in Chars |-> CHOOSE i \in 1..Len(CodePoints) : CodePoints[i] = c]

upper_char == [c \in Chars |-> IF \E i \in 1..26 : LowerLetters[i] = c THEN UpperLetters[CHOOSE i \in 1..26 : LowerLetters[i] = c] ELSE c]

lower_char == [c \in Chars |-> IF \E i \in 1..26 : UpperLetters[i] = c THEN LowerLetters[CHOOSE i \in 1..26 : UpperLetters[i] = c] ELSE c]

\* str.upper()
upper(s) == [i \in 1..Len(s) |-> upper_char[s[i]]]

\* str.lower()
lower(s) == [i \in 1..Len(s) |-> lower_char[s[i]]]

RECURSIVE lstrip(_)
lstrip(s) == IF s # <<>> /\ Head(s) \in Whitespace THEN lstrip(Tail(s)) ELSE s

RECURSIVE rstrip(_)
rstrip(s) == IF s # <<>> /\ s[Len(s)] \in Whitespace THEN rstrip(SubSeq(s, 1, Len(s) - 1)) ELSE s

\* str.strip()
strip(s) == rstrip(lstrip(s))

\* Python's `sub in s` for strings.
contains(s, sub) == \E i \in 0..(Len(s) - Len(sub)) : SubSeq(s, i + 1, i + Len(sub)) = sub

\* Python's `a < b` for strings: lexicographic by code point, a proper prefix first.
RECURSIVE str_lt(_, _)
str_lt(a, b) ==
    IF b = <<>> THEN FALSE
    ELSE IF a = <<>> THEN TRUE
    ELSE IF Head(a) # Head(b) THEN ord[Head(a)] < ord[Head(b)]
    ELSE str_lt(Tail(a), Tail(b))

\* A sorted() that forgets the order: descending instead of ascending.
RECURSIVE sorted_descending(_)
sorted_descending(S) ==
    IF S = {} THEN <<>>
    ELSE LET m == CHOOSE x \in S : \A y \in S : y = x \/ str_lt(y, x)
         IN  <<m>> \o sorted_descending(S \ {m})

\* sorted(iterable) over a set of strings.
RECURSIVE sorted(_)
sorted(S) ==
    IF S = {} THEN <<>>
    ELSE LET m == CHOOSE x \in S : \A y \in S : y = x \/ str_lt(x, y)
         IN  <<m>> \o sorted(S \ {m})

(***************************************************************************)
(* Zone names.                                                             *)
(***************************************************************************)

America_Chicago == <<"A", "m", "e", "r", "i", "c", "a", "/", "C", "h", "i", "c", "a", "g", "o">>
America_Denver == <<"A", "m", "e", "r", "i", "c", "a", "/", "D", "e", "n", "v", "e", "r">>
America_Los_Angeles == <<"A", "m", "e", "r", "i", "c", "a", "/", "L", "o", "s", "_", "A", "n", "g", "e", "l", "e", "s">>
America_New_York == <<"A", "m", "e", "r", "i", "c", "a", "/", "N", "e", "w", "_", "Y", "o", "r", "k">>
Asia_Kolkata == <<"A", "s", "i", "a", "/", "K", "o", "l", "k", "a", "t", "a">>
Asia_Tokyo == <<"A", "s", "i", "a", "/", "T", "o", "k", "y", "o">>
Australia_Sydney == <<"A", "u", "s", "t", "r", "a", "l", "i", "a", "/", "S", "y", "d", "n", "e", "y">>
Europe_London == <<"E", "u", "r", "o", "p", "e", "/", "L", "o", "n", "d", "o", "n">>
Europe_Paris == <<"E", "u", "r", "o", "p", "e", "/", "P", "a", "r", "i", "s">>
Etc_GMT_plus_12 == <<"E", "t", "c", "/", "G", "M", "T", "+", "1", "2">>
Etc_UCT == <<"E", "t", "c", "/", "U", "C", "T">>
Etc_UTC == <<"E", "t", "c", "/", "U", "T", "C">>
Pacific_Kiritimati == <<"P", "a", "c", "i", "f", "i", "c", "/", "K", "i", "r", "i", "t", "i", "m", "a", "t", "i">>
AEST == <<"A", "E", "S", "T">>
CET == <<"C", "E", "T">>
CST == <<"C", "S", "T">>
EST == <<"E", "S", "T">>
GMT == <<"G", "M", "T">>
IST == <<"I", "S", "T">>
JST == <<"J", "S", "T">>
MST == <<"M", "S", "T">>
PST == <<"P", "S", "T">>
UCT == <<"U", "C", "T">>
UTC == <<"U", "T", "C">>

\* self.timezone_abbrevs, as __init__ builds it.
TimezoneAbbrevs ==
    (EST :> America_New_York) @@ (PST :> America_Los_Angeles) @@
    (MST :> America_Denver) @@ (CST :> America_Chicago) @@
    (GMT :> Europe_London) @@ (UTC :> UTC) @@ (JST :> Asia_Tokyo) @@
    (CET :> Europe_Paris) @@ (IST :> Asia_Kolkata) @@ (AEST :> Australia_Sydney)

\* zoneinfo.available_timezones(): the keys of the zone database (a set).
available_timezones ==
    {America_Chicago, America_Denver, America_Los_Angeles, America_New_York,
     Asia_Kolkata, Asia_Tokyo, Australia_Sydney, CET, EST, Etc_GMT_plus_12,
     Etc_UCT, Etc_UTC, Europe_London, Europe_Paris, GMT, MST,
     Pacific_Kiritimati, UCT, UTC}

(***************************************************************************)
(* Exceptions and return values.                                           *)
(***************************************************************************)

Return(v) == [ok |-> TRUE, val |-> v]

\* raise exc(f"{text}{arg}")
Raise(exc, text, arg) == [ok |-> FALSE, exc |-> exc, msg |-> [text |-> text, arg |-> arg]]

(***************************************************************************)
(* normalize_timezone                                                      *)
(***************************************************************************)

\* `x in list`
in_list(x, l) == \E i \in 1..Len(l) : l[i] = x

\* for tz in self.all_timezones: if tz_input.lower() in tz.lower(): return tz
\* and the raise after the loop.
RECURSIVE close_match(_, _)
close_match(tzs, tz_input) ==
    IF tzs = <<>> THEN Raise("ValueError", "Unknown timezone: ", tz_input)
    ELSE IF contains(lower(Head(tzs)), lower(tz_input)) THEN Return(Head(tzs))
    ELSE close_match(Tail(tzs), tz_input)

\* normalize_timezone with the catalog check ahead of the abbreviation check.
normalize_catalog_first(tz_raw) ==
    LET tz_input == strip(tz_raw)
    IN  IF in_list(tz_input, all_timezones) THEN Return(tz_input)
        ELSE IF upper(tz_input) \in DOMAIN timezone_abbrevs
             THEN Return(timezone_abbrevs[upper(tz_input)])
        ELSE close_match(all_timezones, tz_input)

\* normalize_timezone without the exact catalog check.
normalize_no_exact(tz_raw) ==
    LET tz_input == strip(tz_raw)
    IN  IF upper(tz_input) \in DOMAIN timezone_abbrevs
        THEN Return(timezone_abbrevs[upper(tz_input)])
        ELSE close_match(all_timezones, tz_input)

\* The close-match loop comparing against the catalog entry as written.
RECURSIVE close_match_cased(_, _)
close_match_cased(tzs, tz_input) ==
    IF tzs = <<>> THEN Raise("ValueError", "Unknown timezone: ", tz_input)
    ELSE IF contains(Head(tzs), tz_input) THEN Return(Head(tzs))
    ELSE close_match_cased(Tail(tzs), tz_input)

\* normalize_timezone with a case-sensitive substring scan.
normalize_cased(tz_raw) ==
    LET tz_input == strip(tz_raw)
    IN  IF upper(tz_input) \in DOMAIN timezone_abbrevs
        THEN Return(timezone_abbrevs[upper(tz_input)])
        ELSE IF in_list(tz_input, all_timezones) THEN Return(tz_input)
        ELSE close_match_cased(all_timezones, tz_input)

normalize_timezone(tz_raw) ==
    LET tz_input == strip(tz_raw)
    IN  IF upper(tz_input) \in DOMAIN timezone_abbrevs
        THEN Return(timezone_abbrevs[upper(tz_input)])
        ELSE IF in_list(tz_input, all_timezones) THEN Return(tz_input)
        ELSE close_match(all_timezones, tz_input)

(***************************************************************************)
(* datetime: the calendar, and instants as <<ordinal, minute of day>>.     *)
(***************************************************************************)

is_leap(y) == y % 4 = 0 /\ (y % 100 # 0 \/ y % 400 = 0)

days_in_month(y, m) ==
    IF m = 2 THEN (IF is_leap(y) THEN 29 ELSE 28)
    ELSE IF m \in {4, 6, 9, 11} THEN 30 ELSE 31

RECURSIVE days_before_month(_, _)
days_before_month(y, m) == IF m = 1 THEN 0 ELSE days_before_month(y, m - 1) + days_in_month(y, m - 1)

days_before_year(y) == (y - 1) * 365 + (y - 1) \div 4 - (y - 1) \div 100 + (y - 1) \div 400

\* date(y, m, d).toordinal()
toordinal(y, m, d) == days_before_year(y) + days_before_month(y, m) + d

\* The constructor's range check: datetime(y, m, d, h, mi) raises ValueError outside it.
valid_fields(y, m, d, h, mi) ==
    /\ y \in 1..9999
    /\ m \in 1..12
    /\ d \in 1..days_in_month(y, m)
    /\ h \in 0..23
    /\ mi \in 0..59

\* An instant or a wall-clock reading: <<ordinal, minute of day>>, shifted by minutes.
add_minutes(p, delta) ==
    LET total == p[2] + delta
    IN  <<p[1] + (total \div 1440), total % 1440>>

pair_lt(p, q) == p[1] < q[1] \/ (p[1] = q[1] /\ p[2] < q[2])

\* datetime.min .. datetime.max, in ordinals: arithmetic beyond raises OverflowError.
in_range(p) == p[1] >= 1 /\ p[1] <= toordinal(9999, 12, 31)

at(y, m, d, h, mi) == <<toordinal(y, m, d), h * 60 + mi>>

(***************************************************************************)
(* The zone database: for each key the UTC offset (minutes east) before    *)
(* the first transition and the transitions of 2024 (UTC instant, offset   *)
(* from then on).                                                          *)
(***************************************************************************)

fixed_zone(off) == [before |-> off, trans |-> <<>>]

northern_dst(std, dst, hour_utc_on, hour_utc_off, d_on, d_off, m_on, m_off) ==
    [before |-> std,
     trans |-> <<[at |-> at(2024, m_on, d_on, hour_utc_on, 0), off |-> dst],
                 [at |-> at(2024, m_off, d_off, hour_utc_off, 0), off |-> std]>>]

zone_database ==
    (America_New_York :> northern_dst(-300, -240, 7, 6, 10, 3, 3, 11)) @@
    (America_Chicago :> northern_dst(-360, -300, 8, 7, 10, 3, 3, 11)) @@
    (America_Denver :> northern_dst(-420, -360, 9, 8, 10, 3, 3, 11)) @@
    (America_Los_Angeles :> northern_dst(-480, -420, 10, 9, 10, 3, 3, 11)) @@
    (Europe_London :> northern_dst(0, 60, 1, 1, 31, 27, 3, 10)) @@
    (Europe_Paris :> northern_dst(60, 120, 1, 1, 31, 27, 3, 10)) @@
    (CET :> northern_dst(60, 120, 1, 1, 31, 27, 3, 10)) @@
    (Australia_Sydney :>
        [before |-> 660,
         trans |-> <<[at |-> at(2024, 4, 6, 16, 0), off |-> 600],
                     [at |-> at(2024, 10, 5, 16, 0), off |-> 660]>>]) @@
    (Asia_Kolkata :> fixed_zone(330)) @@
    (Asia_Tokyo :> fixed_zone(540)) @@
    (Pacific_Kiritimati :> fixed_zone(840)) @@
    (Etc_GMT_plus_12 :> fixed_zone(-720)) @@
    (EST :> fixed_zone(-300)) @@
    (MST :> fixed_zone(-420)) @@
    (GMT :> fixed_zone(0)) @@ (UCT :> fixed_zone(0)) @@ (UTC :> fixed_zone(0)) @@
    (Etc_UCT :> fixed_zone(0)) @@ (Etc_UTC :> fixed_zone(0))

\* ZoneInfo(key)
ZoneInfo(key) ==
    IF key \in DOMAIN zone_database THEN Return(key)
    ELSE Raise("ZoneInfoNotFoundError", "No time zone found with key ", key)

max2(a, b) == IF a >= b THEN a ELSE b

min2(a, b) == IF a <= b THEN a ELSE b

set_max(S) == CHOOSE x \in S : \A y \in S : y <= x

\* The offset in force before transition i of a zone.
offset_before(z, i) == IF i = 1 THEN z.before ELSE z.trans[i - 1].off

\* Transition i on the zone's wall clock: with fold = 0 a reading in a gap or an
\* overlap still belongs to the old offset, with fold = 1 already to the new one.
trans_local(z, i, fold) ==
    add_minutes(z.trans[i].at,
                IF fold = 0 THEN max2(offset_before(z, i), z.trans[i].off)
                ELSE min2(offset_before(z, i), z.trans[i].off))

\* ZoneInfo.utcoffset ignoring the fold bit (always reading it as 0).
utcoffset_no_fold(key, wall, fold) ==
    LET z == zone_database[key]
        passed == {i \in 1..Len(z.trans) : ~pair_lt(wall, trans_local(z, i, 0))}
    IN  IF passed = {} THEN z.before ELSE z.trans[set_max(passed)].off

\* ZoneInfo.utcoffset(dt) for the wall-clock reading `wall` with fold bit `fold`.
utcoffset(key, wall, fold) ==
    LET z == zone_database[key]
        passed == {i \in 1..Len(z.trans) : ~pair_lt(wall, trans_local(z, i, fold))}
    IN  IF passed = {} THEN z.before ELSE z.trans[set_max(passed)].off

\* An aware datetime: wall-clock reading, fold bit, attached zone.
aware(wall, fold, key) == [ord |-> wall[1], min |-> wall[2], fold |-> fold, tz |-> key]

wall_of(dt) == <<dt.ord, dt.min>>

\* ZoneInfo.fromutc: the wall-clock reading of UTC instant `utc` in zone `key`,
\* fold = 1 on the second pass through a repeated hour.
fromutc(key, utc) ==
    LET z == zone_database[key]
        passed == {i \in 1..Len(z.trans) : ~pair_lt(utc, z.trans[i].at)}
        i == set_max(passed)
        off == IF passed = {} THEN z.before ELSE z.trans[i].off
        fold == IF passed = {} THEN 0
                ELSE IF pair_lt(utc, add_minutes(z.trans[i].at, offset_before(z, i) - off))
                     THEN 1 ELSE 0
        wall == add_minutes(utc, off)
    IN  IF in_range(wall) THEN Return(aware(wall, fold, key))
        ELSE Raise("OverflowError", "date value out of range", <<>>)

\* The absolute (UTC) instant an aware datetime denotes.
utc_of(dt) == add_minutes(wall_of(dt), 0 - utcoffset(dt.tz, wall_of(dt), dt.fold))

\* datetime.astimezone(tz)
astimezone(dt, key) ==
    IF key = dt.tz THEN Return(dt)
    ELSE IF ~in_range(utc_of(dt)) THEN Raise("OverflowError", "date value out of range", <<>>)
    ELSE fromutc(key, utc_of(dt))

(***************************************************************************)
(* re.match on the four patterns (re.IGNORECASE, anchored by ^ and $).     *)
(***************************************************************************)

is_digit(c) == \E i \in 1..10 : Digits[i] = c

all_digits(s) == \A i \in 1..Len(s) : is_digit(s[i])

all_space(s) == \A i \in 1..Len(s) : s[i] \in Whitespace

\* [ap]m under re.IGNORECASE
is_ap_m(s) == Len(s) = 2 /\ lower_char[s[1]] \in {"a", "p"} /\ lower_char[s[2]] = "m"

\* ^(\d{1,2})([ap]m)$
match_hour_meridiem(s) ==
    LET n == Len(s)
    IN  /\ n \in 3..4
        /\ all_digits(SubSeq(s, 1, n - 2))
        /\ is_ap_m(SubSeq(s, n - 1, n))

\* ^(\d{1,2}):(\d{2})([ap]m)$
match_hour_minute_meridiem(s) ==
    LET n == Len(s)
    IN  /\ n \in 6..7
        /\ all_digits(SubSeq(s, 1, n - 5))
        /\ s[n - 4] = ":"
        /\ all_digits(SubSeq(s, n - 3, n - 2))
        /\ is_ap_m(SubSeq(s, n - 1, n))

\* ^(\d{1,2}):(\d{1,2})$ : the 24-hour pattern with a loose minute field.
match_24h_loose(s) ==
    \E lh \in 1..2, lm \in 1..2 :
        /\ Len(s) = lh + 1 + lm
        /\ all_digits(SubSeq(s, 1, lh))
        /\ s[lh + 1] = ":"
        /\ all_digits(SubSeq(s, lh + 2, lh + 1 + lm))

\* ^(\d{1,2}):(\d{2})$
match_24h(s) ==
    LET n == Len(s)
    IN  /\ n \in 4..5
        /\ all_digits(SubSeq(s, 1, n - 3))
        /\ s[n - 2] = ":"
        /\ all_digits(SubSeq(s, n - 1, n))

\* ^(\d{4}-\d{2}-\d{2}\s+\d{1,2}:\d{2})$
match_full_datetime(s) ==
    LET n == Len(s)
    IN  \E k \in 1..(n - 14), lh \in 1..2 :
            /\ n = 10 + k + lh + 3
            /\ all_digits(SubSeq(s, 1, 4)) /\ s[5] = "-"
            /\ all_digits(SubSeq(s, 6, 7)) /\ s[8] = "-"
            /\ all_digits(SubSeq(s, 9, 10))
            /\ all_space(SubSeq(s, 11, 10 + k))
            /\ all_digits(SubSeq(s, 11 + k, 10 + k + lh))
            /\ s[11 + k + lh] = ":"
            /\ all_digits(SubSeq(s, 12 + k + lh, n))

re_match(pattern, s) ==
    CASE pattern = "hour_meridiem" -> match_hour_meridiem(s)
      [] pattern = "hour_minute_meridiem" -> match_hour_minute_meridiem(s)
      [] pattern = "24h" -> match_24h(s)
      [] pattern = "full_datetime" -> match_full_datetime(s)

(***************************************************************************)
(* datetime.strptime: each directive's own regular expression, then the    *)
(* datetime constructor's range check.                                     *)
(***************************************************************************)

digit_value(c) == (CHOOSE i \in 1..10 : Digits[i] = c) - 1

RECURSIVE int_of(_)
int_of(s) == IF s = <<>> THEN 0 ELSE int_of(SubSeq(s, 1, Len(s) - 1)) * 10 + digit_value(s[Len(s)])

\* %I: 1[0-2]|0[1-9]|[1-9]     (also %m)
directive_1_to_12(s) == Len(s) \in 1..2 /\ all_digits(s) /\ int_of(s) \in 1..12

\* %H taken as any one or two digits.
directive_H_unchecked(s) == Len(s) \in 1..2 /\ all_digits(s)

\* %H: 2[0-3]|[0-1]\d|\d
directive_H(s) == Len(s) \in 1..2 /\ all_digits(s) /\ int_of(s) \in 0..23

\* %M: [0-5]\d|\d
directive_M(s) == Len(s) \in 1..2 /\ all_digits(s) /\ int_of(s) \in 0..59

\* %d: 3[01]|[12]\d|0[1-9]|[1-9]| [1-9]
directive_d(s) ==
    \/ Len(s) \in 1..2 /\ all_digits(s) /\ int_of(s) \in 1..31
    \/ Len(s) = 2 /\ s[1] = " " /\ is_digit(s[2]) /\ s[2] # "0"

day_value(s) == IF s[1] = " " THEN int_of(Tail(s)) ELSE int_of(s)

\* %Y: \d\d\d\d
directive_Y(s) == Len(s) = 4 /\ all_digits(s)

\* %p: am|pm (the C locale), case-insensitive
directive_p(s) == Len(s) = 2 /\ lower(s) \in {<<"a", "m">>, <<"p", "m">>}

\* The 24-hour hour of a 12-hour clock reading.
hour_of_12(h, p) ==
    IF lower(p) = <<"a", "m">> THEN (IF h = 12 THEN 0 ELSE h)
    ELSE (IF h = 12 THEN 12 ELSE h + 12)

naive(y, m, d, h, mi) == [year |-> y, month |-> m, day |-> d, hour |-> h, minute |-> mi]

no_match(data) == Raise("ValueError", "time data does not match format: ", data)

\* strptime(data, '%I%p')
strptime_Ip(data) ==
    LET n == Len(data)
        fits == n >= 2 /\ directive_1_to_12(SubSeq(data, 1, n - 2)) /\ directive_p(SubSeq(data, n - 1, n))
    IN  IF fits THEN Return(naive(1900, 1, 1, hour_of_12(int_of(SubSeq(data, 1, n - 2)), SubSeq(data, n - 1, n)), 0))
        ELSE no_match(data)

\* strptime(data, '%I:%M%p')
strptime_IMp(data) ==
    LET n == Len(data)
        splits == {lh \in 1..2 : /\ n >= lh + 4
                                 /\ directive_1_to_12(SubSeq(data, 1, lh))
                                 /\ data[lh + 1] = ":"
                                 /\ directive_M(SubSeq(data, lh + 2, n - 2))
                                 /\ directive_p(SubSeq(data, n - 1, n))}
        lh == CHOOSE l \in splits : TRUE
    IN  IF splits # {}
        THEN Return(naive(1900, 1, 1, hour_of_12(int_of(SubSeq(data, 1, lh)), SubSeq(data, n - 1, n)),
                          int_of(SubSeq(data, lh + 2, n - 2))))
        ELSE no_match(data)

\* strptime(data, '%H:%M')
strptime_HM(data) ==
    LET n == Len(data)
        splits == {lh \in 1..2 : /\ n >= lh + 2
                                 /\ directive_H(SubSeq(data, 1, lh))
                                 /\ data[lh + 1] = ":"
                                 /\ directive_M(SubSeq(data, lh + 2, n))}
        lh == CHOOSE l \in splits : TRUE
    IN  IF splits # {}
        THEN Return(naive(1900, 1, 1, int_of(SubSeq(data, 1, lh)), int_of(SubSeq(data, lh + 2, n))))
        ELSE no_match(data)

\* strptime(data, '%Y-%m-%d %H:%M'): the blank of the format stands for \s+.
strptime_YmdHM(data) ==
    LET n == Len(data)
        splits == {sp \in (1..2) \X (1..2) \X (1..n) \X (1..2) :
                     LET lm == sp[1]
                         ld == sp[2]
                         k == sp[3]
                         lh == sp[4]
                         p == 4 + 1 + lm + 1 + ld
                     IN  /\ n >= p + k + lh + 2
                         /\ directive_Y(SubSeq(data, 1, 4)) /\ data[5] = "-"
                         /\ directive_1_to_12(SubSeq(data, 6, 5 + lm)) /\ data[6 + lm] = "-"
                         /\ directive_d(SubSeq(data, 7 + lm, p))
                         /\ all_space(SubSeq(data, p + 1, p + k))
                         /\ directive_H(SubSeq(data, p + k + 1, p + k + lh))
                         /\ data[p + k + lh + 1] = ":"
                         /\ directive_M(SubSeq(data, p + k + lh + 2, n))}
        sp == CHOOSE x \in splits : TRUE
        p == 6 + sp[1] + sp[2]
        y == int_of(SubSeq(data, 1, 4))
        m == int_of(SubSeq(data, 6, 5 + sp[1]))
        d == day_value(SubSeq(data, 7 + sp[1], p))
        h == int_of(SubSeq(data, p + sp[3] + 1, p + sp[3] + sp[4]))
        mi == int_of(SubSeq(data, p + sp[3] + sp[4] + 2, n))
    IN  IF n < 5 \/ splits = {} THEN no_match(data)
        ELSE IF ~valid_fields(y, m, d, h, mi) THEN Raise("ValueError", "day is out of range for month", <<>>)
        ELSE Return(naive(y, m, d, h, mi))

strptime(data, fmt) ==
    CASE fmt = "%I%p" -> strptime_Ip(data)
      [] fmt = "%I:%M%p" -> strptime_IMp(data)
      [] fmt = "%H:%M" -> strptime_HM(data)
      [] fmt = "%Y-%m-%d %H:%M" -> strptime_YmdHM(data)

(***************************************************************************)
(* parse_time_input                                                        *)
(***************************************************************************)

now_str == <<"n", "o", "w">>

\* patterns = [(regex, format), ...]
patterns ==
    <<[re |-> "hour_meridiem", fmt |-> "%I%p"],
      [re |-> "hour_minute_meridiem", fmt |-> "%I:%M%p"],
      [re |-> "24h", fmt |-> "%H:%M"],
      [re |-> "full_datetime", fmt |-> "%Y-%m-%d %H:%M"]>>

\* dt.replace(tzinfo=ZoneInfo(source_tz)) on a naive datetime: fold stays 0.
attach(dt, source_tz) ==
    aware(<<toordinal(dt.year, dt.month, dt.day), dt.hour * 60 + dt.minute>>, 0, source_tz)

\* The body of the try block for one matching pattern.  `clock.today` is
\* datetime.now().date(), the local date of the machine.
try_pattern(p, time_str, source_tz, clock) ==
    IF p.fmt = "%Y-%m-%d %H:%M"
    THEN LET dt == strptime(time_str, p.fmt)
         IN  IF ~dt.ok THEN dt
             ELSE IF ~ZoneInfo(source_tz).ok THEN ZoneInfo(source_tz)
             ELSE Return(attach(dt.val, source_tz))
    ELSE LET dt == strptime(upper(time_str), p.fmt)
         IN  IF ~dt.ok THEN dt
             ELSE IF ~ZoneInfo(source_tz).ok THEN ZoneInfo(source_tz)
             ELSE Return(attach([dt.val EXCEPT !.year = clock.today.year,
                                               !.month = clock.today.month,
                                               !.day = clock.today.day], source_tz))

\* for pattern, fmt in patterns: ... except ValueError: continue; then the raise.
RECURSIVE pattern_loop(_, _, _, _)
pattern_loop(ps, time_str, source_tz, clock) ==
    IF ps = <<>> THEN Raise("ValueError", "Could not parse time: ", time_str)
    ELSE IF ~re_match(Head(ps).re, time_str)
         THEN pattern_loop(Tail(ps), time_str, source_tz, clock)
    ELSE LET r == try_pattern(Head(ps), time_str, source_tz, clock)
         IN  IF ~r.ok /\ r.exc = "ValueError"
             THEN pattern_loop(Tail(ps), time_str, source_tz, clock)
             ELSE r

\* `clock.now` is the instant datetime.now(tz) observes.
parse_time_input(time_raw, source_tz, clock) ==
    LET time_str == strip(time_raw)
    IN  IF lower(time_str) = now_str
        THEN (IF ZoneInfo(source_tz).ok THEN fromutc(source_tz, clock.now) ELSE ZoneInfo(source_tz))
        ELSE pattern_loop(patterns, time_str, source_tz, clock)

(***************************************************************************)
(* convert_time and format_result                                          *)
(***************************************************************************)

\* The classes `except Exception` catches: every exception raised here.
is_Exception(exc) == exc \in {"ValueError", "OverflowError", "ZoneInfoNotFoundError"}

\* An except clause that names ValueError only.
is_ValueError(exc) == exc = "ValueError"

step(r, trace) == [r |-> r, calls |-> trace]

\* The dict convert_time returns on success.
success(source_tz, target_tz, source_time, target_time) ==
    Return([source_time |-> source_time, target_time |-> target_time,
            source_tz |-> source_tz, target_tz |-> target_tz])

\* The return statement, once target_time is there.
then_return(source_tz, target_tz, source_time, target_time) ==
    IF ~target_time.ok THEN target_time
    ELSE success(source_tz, target_tz, source_time, target_time.val)

\* target_time = source_time.astimezone(ZoneInfo(target_tz)), then the return.
project(source_tz, target_tz, source_time, trace) ==
    IF ~source_time.ok THEN step(source_time, trace)
    ELSE IF ~ZoneInfo(target_tz).ok THEN step(ZoneInfo(target_tz), trace)
    ELSE step(then_return(source_tz, target_tz, source_time.val, astimezone(source_time.val, target_tz)),
              trace \o <<"astimezone">>)

\* source_time = self.parse_time_input(time_str, source_tz), and the rest.
parse_and_project(source_tz, target_tz, time_str, clock, trace) ==
    IF ~target_tz.ok THEN step(target_tz, trace)
    ELSE project(source_tz, target_tz.val, parse_time_input(time_str, source_tz, clock),
                 trace \o <<"parse_time_input">>)

\* target_tz = self.normalize_timezone(to_tz), and the rest.
resolve_target(source_tz, time_str, to_tz, clock, trace) ==
    IF ~source_tz.ok THEN step(source_tz, trace)
    ELSE parse_and_project(source_tz.val, normalize_timezone(to_tz), time_str, clock,
                           trace \o <<"normalize_timezone">>)

project_resolved(source_tz, target_tz, source_time, trace) ==
    IF ~target_tz.ok THEN step(target_tz, trace)
    ELSE project(source_tz, target_tz.val, source_time, trace)

\* The try block with the time parsed before the target zone is resolved.
resolve_target_late(source_tz, source_time, time_str, to_tz, trace) ==
    IF ~source_time.ok THEN step(source_time, trace)
    ELSE project_resolved(source_tz, normalize_timezone(to_tz), source_time,
                          trace \o <<"normalize_timezone">>)

parse_early(source_tz, time_str, to_tz, clock, trace) ==
    IF ~source_tz.ok THEN step(source_tz, trace)
    ELSE resolve_target_late(source_tz.val, parse_time_input(time_str, source_tz.val, clock),
                             time_str, to_tz, trace \o <<"parse_time_input">>)

try_block_parse_early(time_str, from_tz, to_tz, clock) ==
    parse_early(normalize_timezone(from_tz), time_str, to_tz, clock, <<"normalize_timezone">>)

\* The try block of convert_time: the value it returns or the exception it
\* raises, and the calls made up to there.
try_block(time_str, from_tz, to_tz, clock) ==
    resolve_target(normalize_timezone(from_tz), time_str, to_tz, clock, <<"normalize_timezone">>)

\* Whether the except clause of convert_time catches an exception of class exc.
catches(clause, exc) ==
    IF clause = "Exception" THEN is_Exception(exc) ELSE is_ValueError(exc)

\* What leaves convert_time: `value` is the returned dict, or, with
\* escaped = TRUE, the exception the except clause did not catch.
leave(t, clause) ==
    IF t.r.ok THEN [value |-> t.r.val, escaped |-> FALSE, calls |-> t.calls]
    ELSE IF catches(clause, t.r.exc)
         THEN [value |-> [error |-> t.r.msg], escaped |-> FALSE, calls |-> t.calls]
    ELSE [value |-> [exception |-> t.r.exc], escaped |-> TRUE, calls |-> t.calls]

\* convert_time with `except ValueError` in place of `except Exception`.
convert_time_except_value_error(time_str, from_tz, to_tz, clock) ==
    leave(try_block(time_str, from_tz, to_tz, clock), "ValueError")

convert_time(time_str, from_tz, to_tz, clock) ==
    leave(try_block(time_str, from_tz, to_tz, clock), "Exception")

\* strftime('%I:%M %p').lstrip('0'): the hour of the 12-hour clock without
\* its leading zero, the minute, the meridiem.
strftime_12h(dt) ==
    LET h == dt.min \div 60
    IN  [hour |-> IF h % 12 = 0 THEN 12 ELSE h % 12,
         minute |-> dt.min % 60,
         meridiem |-> IF h < 12 THEN "AM" ELSE "PM"]

\* source.date() != target.date(), target.date() > source.date(): the marker
\* " (+1 day)" or " (-1 day)", or the empty string.
date_info(source, target) ==
    IF source.ord # target.ord
    THEN (IF target.ord > source.ord THEN "(+1 day)" ELSE "(-1 day)")
    ELSE ""

format_result(result) ==
    IF "error" \in DOMAIN result THEN [kind |-> "error", error |-> result.error]
    ELSE [kind |-> "converted",
          source_fmt |-> strftime_12h(result.source_time),
          target_fmt |-> strftime_12h(result.target_time),
          date_info |-> date_info(result.source_time, result.target_time)]

(***************************************************************************)
(* Inputs.                                                                 *)
(***************************************************************************)

\* Longest generated zone token.
MaxTokLen == 3

\* Most whitespace characters put on each side of a named token.
MaxPad == 1

RECURSIVE StringsUpTo(_, _)
StringsUpTo(alphabet, n) ==
    IF n = 0 THEN {<<>>}
    ELSE LET shorter == StringsUpTo(alphabet, n - 1)
         IN  shorter \cup {<<c>> \o s : c \in alphabet, s \in {t \in shorter : Len(t) = n - 1}}

Mars_Phobos == <<"M", "a", "r", "s", "/", "P", "h", "o", "b", "o", "s">>
zzz_token == <<"z", "z", "z", "-", "t", "o", "k", "e", "n">>
tokyo == <<"t", "o", "k", "y", "o">>
Etc_slash == <<"E", "t", "c", "/">>

NamedTokens ==
    available_timezones \cup DOMAIN TimezoneAbbrevs \cup {Mars_Phobos, zzz_token, tokyo, Etc_slash}

Pads == StringsUpTo(Whitespace, MaxPad)

GenAlphabet == {"e", "E", "s", "S", "t", "T", "u", "U", "c", "C"}

\* The zone tokens normalize_timezone is called with.
Tokens ==
    {l \o v \o r : l \in Pads, r \in Pads,
                   v \in UNION {{n, lower(n), upper(n)} : n \in NamedTokens}}
    \cup StringsUpTo(GenAlphabet, MaxTokLen)

\* Most whitespace characters between the date and the time of an expression.
MaxSep == 2

ds1(n) == <<Digits[n + 1]>>

ds2(n) == <<Digits[(n \div 10) + 1], Digits[(n % 10) + 1]>>

ds4(n) == ds2(n \div 100) \o ds2(n % 100)

colon == <<":">>

dash == <<"-">>

HourStrs == {ds1(h) : h \in {0, 3, 9}} \cup {ds2(h) : h \in {0, 3, 11, 12, 13, 23, 24, 25}}

MinuteStrs == {ds2(m) : m \in {0, 30, 59, 60}}

Meridiems == {<<"a", "m">>, <<"p", "m">>, <<"A", "M">>, <<"P", "m">>}

DateStrs ==
    {ds4(d[1]) \o dash \o ds2(d[2]) \o dash \o ds2(d[3]) :
        d \in {<<2024, 1, 15>>, <<2024, 13, 1>>, <<2024, 2, 30>>, <<2024, 2, 29>>, <<2024, 3, 10>>,
               <<2024, 11, 3>>, <<9999, 12, 31>>, <<0, 1, 1>>}}

ClockStrs ==
    {ds2(t[1]) \o colon \o ds2(t[2]) :
        t \in {<<15, 0>>, <<23, 0>>, <<25, 0>>, <<2, 30>>, <<6, 30>>, <<1, 30>>, <<23, 30>>, <<10, 60>>}}
    \cup {ds1(5) \o colon \o ds2(0)}

OtherExprs ==
    {<<>>, <<"3">>, <<"p", "m">>, <<"3", " ", "p", "m">>, <<"n", "o", "w", "x">>,
     <<"1", "5", ":", "0", "0", ":", "0", "0">>, <<"3", ":", "3", "0", " ", "p", "m">>,
     <<"3", ":", "5">>, <<"1", "5", "h">>, <<"3", "p">>, <<"1", "2", "3", "p", "m">>,
     ds4(2024) \o dash \o ds2(1) \o dash \o ds2(15),
     ds4(2024) \o dash \o ds1(1) \o dash \o ds2(15) \o <<" ">> \o ds2(15) \o colon \o ds2(0),
     ds2(24) \o dash \o ds2(1) \o dash \o ds2(15) \o <<" ">> \o ds2(15) \o colon \o ds2(0),
     ds4(2024) \o dash \o ds2(1) \o dash \o ds2(15) \o <<"T">> \o ds2(15) \o colon \o ds2(0)}

NowExprs == {now_str, upper(now_str), <<"N", "o", "w">>}

\* The time expressions parse_time_input is called with.
TimeExprs ==
    {h \o p : h \in HourStrs, p \in Meridiems}
    \cup {h \o colon \o m \o p : h \in HourStrs, m \in MinuteStrs, p \in Meridiems}
    \cup {h \o colon \o m : h \in HourStrs, m \in MinuteStrs}
    \cup {d \o sep \o c : d \in DateStrs, sep \in StringsUpTo(Whitespace, MaxSep), c \in ClockStrs}
    \cup OtherExprs \cup NowExprs
    \cup {l \o e \o r : l \in Pads, r \in Pads, e \in {now_str, ds1(3) \o <<"p", "m">>, ds2(25) \o colon \o ds2(0)}}

full(y, m, d, sep, h, mi) == ds4(y) \o dash \o ds2(m) \o dash \o ds2(d) \o sep \o ds2(h) \o colon \o ds2(mi)

\* The time expressions convert_time is called with.
ConvertExprs ==
    {now_str, <<"3", "p", "m">>, <<"1", "2", "a", "m">>, <<"1", "3", "p", "m">>, <<"0", "a", "m">>,
     <<"3", ":", "6", "0", "p", "m">>, <<"1", "1", ":", "5", "9", "P", "M">>,
     ds2(25) \o colon \o ds2(0), ds2(23) \o colon \o ds2(30), ds1(0) \o colon \o ds2(30),
     <<"s", "o", "o", "n">>,
     full(2024, 13, 1, <<" ">>, 10, 0), full(2024, 1, 15, <<" ">>, 15, 0),
     full(2024, 1, 15, <<" ", " ">>, 15, 0), full(2024, 1, 15, <<"\t">>, 15, 0),
     full(2024, 1, 15, <<" ">>, 23, 0), full(2024, 1, 15, <<" ">>, 1, 0),
     full(2024, 11, 3, <<" ">>, 6, 30), full(2024, 11, 3, <<" ">>, 1, 30),
     full(2024, 3, 10, <<" ">>, 2, 30), full(2024, 3, 31, <<" ">>, 1, 30),
     full(2024, 4, 6, <<" ">>, 16, 30), full(9999, 12, 31, <<" ">>, 23, 30)}

\* The zone tokens convert_time is called with.
ConvertTokens ==
    {EST, lower(EST), <<" ">> \o PST \o <<" ">>, UTC, UCT, lower(UCT), Asia_Tokyo, tokyo,
     America_New_York, Europe_London, Australia_Sydney, Etc_GMT_plus_12, Pacific_Kiritimati,
     Mars_Phobos, zzz_token, <<>>}

\* The zones parse_time_input is called with directly.
ParseZones == {UTC, America_New_York, Asia_Tokyo}

\* What the machine's clock shows during a call: the local date and the instant.
Clocks ==
    {[today |-> [year |-> 2024, month |-> 1, day |-> 15], now |-> at(2024, 1, 15, 12, 0)],
     [today |-> [year |-> 2024, month |-> 11, day |-> 3], now |-> at(2024, 11, 3, 6, 30)]}

(***************************************************************************)
(* The state machine.                                                      *)
(***************************************************************************)

NoArgs == [none |-> TRUE]

Init ==
    /\ timezone_abbrevs = TimezoneAbbrevs
    /\ all_timezones = sorted(available_timezones)
    /\ pc = "idle"
    /\ op = "none"
    /\ args = NoArgs
    /\ ret = NoArgs
    /\ calls = <<>>
    /\ output = NoArgs

\* A caller invokes normalize_timezone(tz_input) on the constructed converter.
NormalizeTimezone ==
    /\ pc = "idle"
    /\ \E t \in Tokens :
         /\ args' = [tz_input |-> t]
         /\ ret' = normalize_timezone(t)
    /\ pc' = "returned"
    /\ op' = "normalize_timezone"
    /\ calls' = <<"normalize_timezone">>
    /\ UNCHANGED <<timezone_abbrevs, all_timezones, output>>

\* A caller invokes parse_time_input(time_str, source_tz).
ParseTimeInput ==
    /\ pc = "idle"
    /\ \E e \in TimeExprs, z \in ParseZones, c \in Clocks :
         /\ args' = [time_str |-> e, source_tz |-> z, clock |-> c]
         /\ ret' = parse_time_input(e, z, c)
    /\ pc' = "returned"
    /\ op' = "parse_time_input"
    /\ calls' = <<"parse_time_input">>
    /\ UNCHANGED <<timezone_abbrevs, all_timezones, output>>

\* convert_time leaves with r: the dict it returned, or an exception.
ConvertTimeLeaves(a, r) ==
    /\ args' = a
    /\ ret' = r.value
    /\ calls' = r.calls
    /\ pc' = IF r.escaped THEN "raised" ELSE "returned"

\* cli_mode or tui_mode invokes convert_time(time_str, from_tz, to_tz).
ConvertTime ==
    /\ pc = "idle"
    /\ \E e \in ConvertExprs, f \in ConvertTokens, t \in ConvertTokens, c \in Clocks :
         ConvertTimeLeaves([time_str |-> e, from_tz |-> f, to_tz |-> t, clock |-> c],
                           convert_time(e, f, t, c))
    /\ op' = "convert_time"
    /\ UNCHANGED <<timezone_abbrevs, all_timezones, output>>

\* cli_mode or tui_mode prints format_result(result) for the result it got.
FormatResult ==
    /\ pc = "returned"
    /\ op = "convert_time"
    /\ output' = format_result(ret)
    /\ pc' = "formatted"
    /\ UNCHANGED <<timezone_abbrevs, all_timezones, op, args, ret, calls>>

\* tui_mode, asked to convert another time, calls itself: a new converter.
ConvertAnother ==
    /\ pc = "formatted"
    /\ timezone_abbrevs' = TimezoneAbbrevs
    /\ all_timezones' = sorted(available_timezones)
    /\ pc' = "idle"
    /\ op' = "none"
    /\ args' = NoArgs
    /\ ret' = NoArgs
    /\ calls' = <<>>
    /\ output' = NoArgs

Next ==
    \/ NormalizeTimezone
    \/ ParseTimeInput
    \/ ConvertTime
    \/ FormatResult
    \/ ConvertAnother

Spec == Init /\ [][Next]_vars

(***************************************************************************)
(* Properties.                                                             *)
(***************************************************************************)

Range(s) == {s[i] : i \in 1..Len(s)}

Normalized == op = "normalize_timezone" /\ pc = "returned"

Parsed == op = "parse_time_input" /\ pc = "returned"

Converted == op = "convert_time"

UnknownZone(token) == Raise("ValueError", "Unknown timezone: ", token)

UnparseableTime(expr) == Raise("ValueError", "Could not parse time: ", expr)

IsAbbreviation(token) == upper(strip(token)) \in DOMAIN TimezoneAbbrevs

\* The catalog entries whose lowercase form contains the lowercase token.
Containing(token) == {z \in available_timezones : contains(lower(z), lower(strip(token)))}

\* No rule of the resolver applies to the token.
Unresolvable(token) ==
    /\ ~IsAbbreviation(token)
    /\ strip(token) \notin available_timezones
    /\ Containing(token) = {}

\* C1 as claimed: for every identifier z of the zone catalog,
\* normalize_timezone(z) returns z unchanged.
C1_CatalogEntryUnchanged ==
    (Normalized /\ args.tz_input \in available_timezones) => ret = Return(args.tz_input)

\* C1 as amended: for every identifier z of the zone catalog,
\* normalize_timezone(z) returns z unchanged unless the uppercase form of z is
\* a key of the abbreviation table, and then it returns the identifier the
\* table maps that key to.
C1_CatalogEntryUnchangedUnlessAbbreviation ==
    (Normalized /\ args.tz_input \in available_timezones) =>
        ret = Return(IF IsAbbreviation(args.tz_input)
                     THEN TimezoneAbbrevs[upper(args.tz_input)]
                     ELSE args.tz_input)

\* A catalog entry that an earlier-sorting entry contains comes back unchanged.
C1_Witness == Normalized /\ args.tz_input = UCT /\ ret = Return(UCT)

\* C2: a token that equals a key of the abbreviation table after trimming and
\* uppercasing resolves to the identifier the table maps the key to, whatever
\* catalog entries equal or contain the token.
C2_AbbreviationTakesPrecedence ==
    Normalized =>
        \A k \in DOMAIN TimezoneAbbrevs :
            upper(strip(args.tz_input)) = k => ret = Return(TimezoneAbbrevs[k])

\* A padded lowercase abbreviation that is also the name of a catalog entry.
C2_Witness ==
    /\ Normalized
    /\ args.tz_input = <<" ">> \o lower(EST) \o <<"\t">>
    /\ EST \in available_timezones
    /\ ret = Return(America_New_York)

\* C3: when the from-token or the to-token cannot be resolved, convert_time
\* returns the error "Unknown timezone: <token>" for every time expression,
\* parse_time_input is not called, and with both unresolvable the message
\* names the from-token.
C3_ZonesResolvedBeforeParsing ==
    (Converted /\ (Unresolvable(args.from_tz) \/ Unresolvable(args.to_tz))) =>
        /\ pc # "raised"
        /\ DOMAIN ret = {"error"}
        /\ ret.error = UnknownZone(strip(IF Unresolvable(args.from_tz)
                                         THEN args.from_tz ELSE args.to_tz)).msg
        /\ "parse_time_input" \notin Range(calls)

\* Both tokens unresolvable and the expression unparseable as well.
C3_Witness ==
    /\ Converted
    /\ args.from_tz = Mars_Phobos
    /\ args.to_tz = zzz_token
    /\ args.time_str = <<"s", "o", "o", "n">>
    /\ ret = [error |-> UnknownZone(Mars_Phobos).msg]

\* C4: convert_time never raises, and what it returns is either a record of
\* exactly source_time, target_time, source_tz and target_tz, or a record of
\* exactly an error message; format_result takes the error branch exactly for
\* the latter.
C4_TwoVariants ==
    Converted =>
        /\ pc # "raised"
        /\ \/ DOMAIN ret = {"source_time", "target_time", "source_tz", "target_tz"}
           \/ DOMAIN ret = {"error"}
        /\ pc = "formatted" => (output.kind = "error" <=> DOMAIN ret = {"error"})

\* An OverflowError of the projection into the target zone, returned as an error.
C4_Witness ==
    /\ Converted
    /\ pc = "formatted"
    /\ ret = [error |-> [text |-> "date value out of range", arg |-> <<>>]]
    /\ output.kind = "error"

\* The numeric fields of an expression that has the shape of one of the four
\* patterns, read by position.
FieldsOf(s) ==
    LET n == Len(s)
        time_only == ~match_full_datetime(s)
        has_meridiem == ~is_digit(s[n])
        m == IF has_meridiem THEN n - 2 ELSE n
        has_minute == m > 2 /\ s[m - 2] = ":"
        h_end == IF has_minute THEN m - 3 ELSE m
        h_start == IF h_end > 1 /\ is_digit(s[h_end - 1]) THEN h_end - 1 ELSE h_end
    IN  [hour |-> int_of(SubSeq(s, h_start, h_end)),
         minute |-> IF has_minute THEN int_of(SubSeq(s, m - 1, m)) ELSE 0,
         has_meridiem |-> has_meridiem,
         year |-> IF time_only THEN 2024 ELSE int_of(SubSeq(s, 1, 4)),
         month |-> IF time_only THEN 1 ELSE int_of(SubSeq(s, 6, 7)),
         day |-> IF time_only THEN 1 ELSE int_of(SubSeq(s, 9, 10))]

HasShape(s) ==
    \/ match_hour_meridiem(s)
    \/ match_hour_minute_meridiem(s)
    \/ match_24h(s)
    \/ match_full_datetime(s)

\* The expression has one of the four shapes and a field outside its range.
OutOfRange(s) ==
    /\ HasShape(s)
    /\ LET f == FieldsOf(s)
       IN  \/ f.has_meridiem /\ f.hour \notin 1..12
           \/ ~f.has_meridiem /\ f.hour \notin 0..23
           \/ f.minute \notin 0..59
           \/ f.year \notin 1..9999
           \/ f.month \notin 1..12
           \/ f.day \notin 1..days_in_month(f.year, f.month)

\* C5: an expression that has the shape of one of the four patterns and a
\* numeric field out of range makes parse_time_input fail with "Could not
\* parse time: <expression>", and convert_time return that error: no pattern
\* of the list accepts it.
C5_OutOfRangeFieldFails ==
    /\ (Parsed /\ OutOfRange(strip(args.time_str))) =>
           ret = UnparseableTime(strip(args.time_str))
    /\ (Converted /\ OutOfRange(strip(args.time_str))
          /\ ~Unresolvable(args.from_tz) /\ ~Unresolvable(args.to_tz)) =>
           ret = [error |-> UnparseableTime(strip(args.time_str)).msg]

\* '25:00' has the 24-hour shape and no valid hour.
C5_Witness ==
    /\ Parsed
    /\ args.time_str = ds2(25) \o colon \o ds2(0)
    /\ ret = UnparseableTime(ds2(25) \o colon \o ds2(0))

\* C6: on success the target instant denotes the same absolute time as the
\* source instant, and projecting the target instant back into the source
\* zone yields that absolute time again.
C6_RoundTrip ==
    (Converted /\ "source_time" \in DOMAIN ret) =>
        /\ ret.source_time.tz = ret.source_tz
        /\ ret.target_time.tz = ret.target_tz
        /\ utc_of(ret.target_time) = utc_of(ret.source_time)
        /\ LET back == astimezone(ret.target_time, ret.source_tz)
           IN  back.ok /\ utc_of(back.val) = utc_of(ret.source_time)

\* A conversion into the repeated hour at the end of daylight saving time.
C6_Witness ==
    /\ Converted
    /\ "source_time" \in DOMAIN ret
    /\ ret.source_tz # ret.target_tz
    /\ ret.target_time.fold = 1

swap_case(c) == IF upper_char[c] # c THEN upper_char[c] ELSE lower_char[c]

\* Tokens that differ from the token in letter case only: all lower, all
\* upper, and one letter changed.
CaseVariants(token) ==
    {lower(token), upper(token)}
    \cup {[token EXCEPT ![i] = swap_case(token[i])] : i \in 1..Len(token)}

SameOutcome(a, b) == a.ok = b.ok /\ (a.ok => a.val = b.val)

\* The token is resolved by the exact, case-sensitive catalog check.
ExactEntry(token) == ~IsAbbreviation(token) /\ strip(token) \in available_timezones

\* C7 as claimed: two tokens that differ only in letter case both fail or
\* resolve to the same identifier.
C7_CaseInsensitive ==
    Normalized =>
        \A v \in CaseVariants(args.tz_input) : SameOutcome(normalize_timezone(v), ret)

\* C7 as amended: two tokens that differ only in letter case, neither of which
\* is resolved by the exact (case-sensitive) catalog check, both fail or
\* resolve to the same identifier.
C7_CaseInsensitiveExceptExactEntries ==
    Normalized =>
        \A v \in CaseVariants(args.tz_input) :
            (~ExactEntry(args.tz_input) /\ ~ExactEntry(v)) =>
                SameOutcome(normalize_timezone(v), ret)

\* A lowercase token found by the substring scan, with a variant that differs.
C7_Witness ==
    /\ Normalized
    /\ args.tz_input = tokyo
    /\ ret = Return(Asia_Tokyo)
    /\ \E v \in CaseVariants(tokyo) : v # tokyo /\ ~ExactEntry(v)

\* C8: format_result shows a day marker exactly when the two calendar dates
\* differ, "+1 day" when the target date is later and "-1 day" when earlier,
\* and whenever it shows one the dates differ by exactly one day.
C8_DayMarkerMagnitude ==
    (Converted /\ pc = "formatted" /\ output.kind = "converted") =>
        LET diff == ret.target_time.ord - ret.source_time.ord
        IN  /\ output.date_info = "" <=> diff = 0
            /\ output.date_info = "(+1 day)" => diff = 1
            /\ output.date_info = "(-1 day)" => diff = 0 - 1

\* C9: a token that is neither an abbreviation nor an exact catalog entry
\* resolves to the entry that sorts first among those containing it, and
\* fails with "Unknown timezone" exactly when none contains it.
C9_FirstMatchInSortedOrder ==
    (Normalized /\ ~IsAbbreviation(args.tz_input)
       /\ strip(args.tz_input) \notin available_timezones) =>
        IF Containing(args.tz_input) = {}
        THEN ret = UnknownZone(strip(args.tz_input))
        ELSE /\ ret.ok
             /\ ret.val \in Containing(args.tz_input)
             /\ \A z \in Containing(args.tz_input) : z = ret.val \/ str_lt(ret.val, z)

\* 'uct' is contained in Etc/UCT and in the later-sorting UCT.
C9_Witness ==
    /\ Normalized
    /\ args.tz_input = lower(UCT)
    /\ {Etc_UCT, UCT} \subseteq Containing(args.tz_input)
    /\ ret = Return(Etc_UCT)

\* The surface syntaxes, read by position.
FormNow(s) == lower(s) = now_str

HourDigits(s) == Len(s) \in 1..2 /\ all_digits(s)

TwoDigits(s) == Len(s) = 2 /\ all_digits(s)

IsMeridiem(s) == lower(s) \in {<<"a", "m">>, <<"p", "m">>}

\* (a) H[H]am/pm
FormA(s) ==
    Len(s) >= 3 /\ HourDigits(SubSeq(s, 1, Len(s) - 2)) /\ IsMeridiem(SubSeq(s, Len(s) - 1, Len(s)))

\* (c) H[H]:MM
FormC(s) ==
    /\ Len(s) >= 4
    /\ HourDigits(SubSeq(s, 1, Len(s) - 3))
    /\ s[Len(s) - 2] = ":"
    /\ TwoDigits(SubSeq(s, Len(s) - 1, Len(s)))

\* (b) H[H]:MMam/pm
FormB(s) ==
    Len(s) >= 6 /\ FormC(SubSeq(s, 1, Len(s) - 2)) /\ IsMeridiem(SubSeq(s, Len(s) - 1, Len(s)))

\* (d) YYYY-MM-DD, a separator out of seps, H[H]:MM
FormD(s, seps) ==
    /\ Len(s) >= 15
    /\ all_digits(SubSeq(s, 1, 4)) /\ s[5] = "-"
    /\ TwoDigits(SubSeq(s, 6, 7)) /\ s[8] = "-"
    /\ TwoDigits(SubSeq(s, 9, 10))
    /\ \E k \in 1..(Len(s) - 14) :
           /\ SubSeq(s, 11, 10 + k) \in seps
           /\ FormC(SubSeq(s, 11 + k, Len(s)))

\* The runs of one or more whitespace characters, as long as any in an expression.
WhitespaceRuns == StringsUpTo(Whitespace, MaxSep) \ {<<>>}

\* C10 as claimed: parse_time_input yields an instant only for 'now' and the
\* forms (a) to (d), form (d) with exactly one space between the date and the
\* time; every other expression fails with "Could not parse time".
C10_ClosedSyntaxOneSpace ==
    Parsed =>
        LET s == strip(args.time_str)
        IN  IF ret.ok
            THEN FormNow(s) \/ FormA(s) \/ FormB(s) \/ FormC(s) \/ FormD(s, {<<" ">>})
            ELSE ret = UnparseableTime(s)

\* C10 as amended: parse_time_input yields an instant only for 'now' and the
\* forms (a) to (d), form (d) with one or more whitespace characters between
\* the date and the time; every other expression fails with "Could not parse
\* time".
C10_ClosedSyntaxWhitespaceRun ==
    Parsed =>
        LET s == strip(args.time_str)
        IN  IF ret.ok
            THEN FormNow(s) \/ FormA(s) \/ FormB(s) \/ FormC(s) \/ FormD(s, WhitespaceRuns)
            ELSE ret = UnparseableTime(s)

\* A date and a time with a space and a tab between them, accepted.
C10_Witness ==
    /\ Parsed
    /\ args.time_str = full(2024, 1, 15, <<" ", "\t">>, 15, 0)
    /\ ret.ok
    /\ ret.val.min = 15 * 60

====
